---- MODULE Spec2Model ----
(***************************************************************************)
(* Review aggregation functions of the resource directory                 *)
(* (functions/index.js): the callable saveReview, the HTTP function api    *)
(* and the callable getStats, all working on the Firestore collection      *)
(* "reviews".                                                              *)
(*                                                                         *)
(* JavaScript values are modelled as tagged records {t, k, n, d, s}:       *)
(*   t  the typeof tag ("undefined", "object", "string", "number"),        *)
(*   k  the kind of a number ("finite", "NaN", "Infinity"), "null" for null*)
(*   n/d  the value of a finite number as a reduced fraction (d > 0),      *)
(*   s  the characters of a string.                                        *)
(* Finite numbers are exact rationals: floating-point rounding is not      *)
(* modelled.                                                               *)
(***************************************************************************)
EXTENDS Integers, Sequences, FiniteSets, TLC

(***************************************************************************)
(* Bounds of the model.                                                    *)
(***************************************************************************)
\* saveReview invocations in one behaviour under Spec (each slot is used once)
NumCalls == 2
\* saveReview invocations in one behaviour under SpecInputs
NumInputCalls == 1

VARIABLES
  reviews,   \* db.collection("reviews"): the set of stored documents
  clock,     \* the server's commit time: the number of commits so far
  calls,     \* the saveReview calls whose upsert has committed, by slot
  response,  \* the reply under way: of api, of getStats, or of a saveReview
             \* call that threw before its upsert committed
  home,      \* the Home view in one browser: who is signed in, the rating
             \* form, the saveReview call awaited and the localStorage cache
  table      \* a DataTable component: its queries, sort and page

vars == <<reviews, clock, calls, response, home, table>>

(***************************************************************************)
(* JavaScript values.                                                      *)
(***************************************************************************)
Undefined == [t |-> "undefined", k |-> "", n |-> 0, d |-> 1, s |-> <<>>]

Null == [t |-> "object", k |-> "null", n |-> 0, d |-> 1, s |-> <<>>]

\* a string, given as the sequence of its characters
Str(chars) == [t |-> "string", k |-> "", n |-> 0, d |-> 1, s |-> chars]

NaN == [t |-> "number", k |-> "NaN", n |-> 0, d |-> 1, s |-> <<>>]

Infinity == [t |-> "number", k |-> "Infinity", n |-> 0, d |-> 1, s |-> <<>>]

RECURSIVE Gcd(_, _)
Gcd(a, b) == IF b = 0 THEN a ELSE Gcd(b, a % b)

\* the finite number n/d (n >= 0, d > 0), reduced
Frac(n, d) ==
  LET g == Gcd(n, d)
  IN [t |-> "number", k |-> "finite", n |-> n \div g, d |-> d \div g, s |-> <<>>]

Num(i) == [t |-> "number", k |-> "finite", n |-> i, d |-> 1, s |-> <<>>]

TypeOf(x) == x.t

\* Number.isFinite(x)
IsFinite(x) == x.t = "number" /\ x.k = "finite"

\* Number.isNaN(x)
IsNaN(x) == x.t = "number" /\ x.k = "NaN"

\* x converts to true (!x is false)
Truthy(x) ==
  CASE x.t = "undefined" -> FALSE
    [] x.t = "object" -> x.k # "null"
    [] x.t = "string" -> x.s # <<>>
    [] x.t = "number" -> x.k = "Infinity" \/ (x.k = "finite" /\ x.n # 0)

\* x < i and x > i for a number x and an integer literal i
\* (every comparison with NaN is false)
LessThan(x, i) == x.k = "finite" /\ x.n < i * x.d

GreaterThan(x, i) == x.k = "Infinity" \/ (x.k = "finite" /\ x.n > i * x.d)

\* a + b for finite numbers
Plus(a, b) == Frac(a.n * b.d + b.n * a.d, a.d * b.d)

\* a / i for a finite number a and a count i > 0
DividedBy(a, i) == Frac(a.n, a.d * i)

\* `${x}` for a number x: integers print their digits, halves as i.5
NumberToString(x) ==
  CASE x.k = "NaN" -> "NaN"
    [] x.k = "Infinity" -> "Infinity"
    [] x.k = "finite" /\ x.d = 1 -> ToString(x.n)
    [] OTHER -> ToString(x.n \div x.d) \o "." \o ToString((10 * (x.n % x.d)) \div x.d)

(***************************************************************************)
(* Firestore: a collection is a set of documents, one per document id.     *)
(* A document is the record of its fields together with its id.            *)
(***************************************************************************)
\* collection.doc(id).set(fields, {merge: true}) committed at time now: the
\* fields given replace the document's, its other fields stay, and a
\* FieldValue.serverTimestamp() field takes the commit time
ServerTimestamp == "serverTimestamp"

\* createdAt resolved by a later stamp than updatedAt
ResolveCreatedLater(fields, now) ==
  [k \in DOMAIN fields |-> IF k = "createdAt" /\ fields[k] = ServerTimestamp THEN now + 1
                           ELSE IF k = "updatedAt" /\ fields[k] = ServerTimestamp THEN now
                           ELSE fields[k]]

Resolve(fields, now) ==
  [k \in DOMAIN fields |-> IF k \in {"updatedAt", "createdAt"} /\ fields[k] = ServerTimestamp
                           THEN now ELSE fields[k]]

\* collection.add(fields) in place of doc(id).set: a new document each time
SetAdd(col, id, fields, now) ==
  col \cup {[id |-> "auto" \o ToString(now)] @@ Resolve(fields, now)}

\* doc(id).set only when the document does not exist yet
SetCreateOnly(col, id, fields, now) ==
  IF \E doc \in col : doc.id = id THEN col
  ELSE col \cup {[id |-> id] @@ Resolve(fields, now)}

SetMerge(col, id, fields, now) ==
  LET old == {doc \in col : doc.id = id}
      kept == {doc \in col : doc.id # id}
      new == [id |-> id] @@ Resolve(fields, now)
  IN IF old = {} THEN kept \cup {new}
     ELSE kept \cup {new @@ doc : doc \in old}

\* collection.get(): no filter
WhereAll(col, resourceId) == col

\* collection.where("resourceId", "==", resourceId).get()
Where(col, resourceId) == {doc \in col : doc.resourceId = resourceId}

(***************************************************************************)
(* saveReview (callable).                                                  *)
(***************************************************************************)
\* request.auth: absent, or present with a uid
NoAuth == [present |-> FALSE, uid |-> ""]

Auth(uid) == [present |-> TRUE, uid |-> uid]

\* if (!ctx.auth)
UnauthenticatedNoUid(auth) == ~auth.present

\* no check of the caller at all
UnauthenticatedNever(auth) == FALSE

\* if (!ctx.auth || !ctx.auth.uid)
Unauthenticated(auth) == ~auth.present \/ auth.uid = ""

\* if (!resourceId || typeof resourceId !== "number")
InvalidResourceId(resourceId) ==
  ~Truthy(resourceId) \/ TypeOf(resourceId) # "number"

\* the checks of the rating without Number.isNaN
InvalidRatingNoNaN(rating) ==
  \/ rating = Undefined
  \/ TypeOf(rating) # "number"
  \/ LessThan(rating, 1)
  \/ GreaterThan(rating, 5)

\* if (rating === undefined || typeof rating !== "number" ||
\*     Number.isNaN(rating) || rating < 1 || rating > 5)
InvalidRating(rating) ==
  \/ rating = Undefined
  \/ TypeOf(rating) # "number"
  \/ IsNaN(rating)
  \/ LessThan(rating, 1)
  \/ GreaterThan(rating, 5)

\* const docId = `${resourceId}`
DocIdResourceOnly(resourceId, userId) == NumberToString(resourceId)

\* const docId = `${resourceId}${userId}`
DocIdNoSeparator(resourceId, userId) == NumberToString(resourceId) \o userId

\* const docId = `${resourceId}_${userId}`
DocId(resourceId, userId) == NumberToString(resourceId) \o "_" \o userId

\* the fields saveReview writes
ReviewFields(resourceId, userId, rating) ==
  [resourceId |-> resourceId, userId |-> userId, rating |-> rating,
   updatedAt |-> ServerTimestamp, createdAt |-> ServerTimestamp]

\* sum and count of the numeric ratings of a query result (snap.forEach)
RECURSIVE SumRatings(_)
SumRatings(docs) ==
  IF docs = {} THEN Num(0)
  ELSE LET doc == CHOOSE x \in docs : TRUE
       IN IF TypeOf(doc.rating) = "number"
          THEN Plus(doc.rating, SumRatings(docs \ {doc}))
          ELSE SumRatings(docs \ {doc})

CountRatings(docs) == Cardinality({doc \in docs : TypeOf(doc.rating) = "number"})

\* the sum divided by one more than the count
AverageOffByOne(docs) ==
  IF CountRatings(docs) > 0
  THEN DividedBy(SumRatings(docs), CountRatings(docs) + 1)
  ELSE Num(0)

\* const average = sum / count, which is NaN for no ratings (0 / 0)
AverageUnguarded(docs) ==
  IF CountRatings(docs) > 0
  THEN DividedBy(SumRatings(docs), CountRatings(docs))
  ELSE NaN

\* const average = count > 0 ? sum / count : 0
Average(docs) ==
  IF CountRatings(docs) > 0
  THEN DividedBy(SumRatings(docs), CountRatings(docs))
  ELSE Num(0)

\* no reply under way
NoResponse ==
  [op |-> "none", auth |-> NoAuth, method |-> "", path |-> "", query |-> Undefined,
   dataResourceId |-> Undefined, dataRating |-> Undefined,
   status |-> 0, error |-> "", headers |-> {}, scope |-> "", resourceId |-> Undefined,
   average |-> Undefined, count |-> 0, uniqueUsers |-> 0, uniqueResources |-> 0,
   reviews |-> {}]

\* Requests are taken one at a time: a handler step runs once the reply of the
\* step before it has been delivered
Ready == response = NoResponse

\* the reply under way reaches its caller
Deliver ==
  /\ response # NoResponse
  /\ response' = NoResponse
  /\ UNCHANGED <<reviews, clock, calls>>

\* a slot before its call
Idle ==
  [pc |-> "idle", auth |-> NoAuth, resourceId |-> Undefined, rating |-> Undefined,
   at |-> 0, average |-> Undefined, count |-> 0, error |-> ""]

\* lines 39-73: the checks, then the upsert, which commits at time clock + 1
\* or is rejected by the store (outcome is "ok" or the store's error).
\* A call that throws replies at once; a call whose upsert committed takes
\* slot c, the next free one, until its query is answered.
SaveReviewCall(c, auth, resourceId, rating, outcome) ==
  LET throw(msg) ==
        /\ response' = [NoResponse EXCEPT !.op = "saveReview", !.auth = auth,
                                          !.dataResourceId = resourceId,
                                          !.dataRating = rating, !.error = msg]
        /\ UNCHANGED <<reviews, clock, calls>>
  IN IF Unauthenticated(auth)
     THEN throw("UNAUTHENTICATED")
     ELSE IF InvalidResourceId(resourceId)
     THEN throw("INVALID_ARGUMENT: resourceId must be a number")
     ELSE IF InvalidRating(rating)
     THEN throw("INVALID_ARGUMENT: rating must be 1..5")
     ELSE IF outcome # "ok"
     THEN throw(outcome)
     ELSE /\ calls[c].pc = "idle"
          /\ \A b \in DOMAIN calls : b < c => calls[b].pc # "idle"
          /\ clock' = clock + 1
          /\ reviews' = SetMerge(reviews, DocId(resourceId, auth.uid),
                                 ReviewFields(resourceId, auth.uid, rating), clock')
          /\ calls' = [calls EXCEPT ![c] =
                         [Idle EXCEPT !.pc = "get", !.auth = auth,
                                      !.resourceId = resourceId, !.rating = rating,
                                      !.at = clock']]
          /\ UNCHANGED response

\* the aggregate taken over the other raters' documents only, as when the
\* query is answered from before the call's own write
SaveReviewAggregateOthers(c, outcome) ==
  /\ calls[c].pc = "get"
  /\ LET others == {doc \in Where(reviews, calls[c].resourceId) :
                     doc.userId # calls[c].auth.uid}
     IN calls' = [calls EXCEPT ![c] = [@ EXCEPT !.pc = "returned",
                                                !.average = Average(others),
                                                !.count = CountRatings(others)]]
  /\ UNCHANGED <<reviews, clock, response>>

\* lines 75-92: the query for the resource's reviews and the aggregate returned
SaveReviewAggregate(c, outcome) ==
  /\ calls[c].pc = "get"
  /\ IF outcome # "ok"
     THEN calls' = [calls EXCEPT ![c] = [@ EXCEPT !.pc = "failed", !.error = outcome]]
     ELSE LET allForResource == Where(reviews, calls[c].resourceId)
          IN calls' = [calls EXCEPT ![c] = [@ EXCEPT !.pc = "returned",
                                                     !.average = Average(allForResource),
                                                     !.count = CountRatings(allForResource)]]
  /\ UNCHANGED <<reviews, clock, response>>

(***************************************************************************)
(* api (HTTP): GET /reviews?resourceId=:id                                 *)
(***************************************************************************)
Digits == {"0", "1", "2", "3", "4", "5", "6", "7", "8", "9"}

DigitValue(ch) ==
  CASE ch = "0" -> 0 [] ch = "1" -> 1 [] ch = "2" -> 2 [] ch = "3" -> 3 [] ch = "4" -> 4
    [] ch = "5" -> 5 [] ch = "6" -> 6 [] ch = "7" -> 7 [] ch = "8" -> 8 [] ch = "9" -> 9

RECURSIVE DigitsValue(_)
DigitsValue(chars) ==
  IF chars = <<>> THEN 0
  ELSE 10 * DigitsValue(SubSeq(chars, 1, Len(chars) - 1)) + DigitValue(chars[Len(chars)])

\* Number(x) for undefined and for strings of the forms the model draws:
\* the empty string is 0, a digit string its value, "Infinity" is Infinity,
\* any other text NaN
ToNumber(x) ==
  CASE x.t = "number" -> x
    [] x.t = "undefined" -> NaN
    [] x.t = "string" /\ x.s = <<>> -> Num(0)
    [] x.t = "string" /\ x.s # <<>> /\ (\A i \in 1..Len(x.s) : x.s[i] \in Digits) ->
         Num(DigitsValue(x.s))
    [] x.t = "string" /\ x.s = <<"I", "n", "f", "i", "n", "i", "t", "y">> -> Infinity
    [] OTHER -> NaN

\* the res.set calls without the one for Access-Control-Allow-Headers
CorsHeadersNoAllowHeaders ==
  { <<"Access-Control-Allow-Origin", "*">>,
    <<"Access-Control-Allow-Methods", "GET, OPTIONS">> }

\* the three res.set calls
CorsHeaders ==
  { <<"Access-Control-Allow-Origin", "*">>,
    <<"Access-Control-Allow-Methods", "GET, OPTIONS">>,
    <<"Access-Control-Allow-Headers", "Content-Type, Authorization">> }

\* x || null for a string field (null is written "null") and for a number field
StringOrNull(x) == IF x # "" THEN x ELSE "null"

NumberOrNull(x) == IF Truthy(x) THEN x ELSE Null

\* the plain object pushed for a document; a stored timestamp is an object,
\* which || never replaces
ApiReview(doc) ==
  [id |-> doc.id, resourceId |-> doc.resourceId, userId |-> StringOrNull(doc.userId),
   rating |-> NumberOrNull(doc.rating), createdAt |-> doc.createdAt,
   updatedAt |-> doc.updatedAt]

\* lines 101-155 (outcome is "ok" or the store's error for the query)
Api(method, path, query, outcome) ==
  /\ LET res == [NoResponse EXCEPT !.op = "api", !.method = method, !.path = path,
                                   !.query = query, !.headers = CorsHeaders]
         resourceId == ToNumber(query)
     IN response' =
          IF method = "OPTIONS"
          THEN [res EXCEPT !.status = 204]
          ELSE IF method # "GET"
          THEN [res EXCEPT !.status = 405, !.error = "Method Not Allowed"]
          ELSE IF path # "/reviews"
          THEN [res EXCEPT !.status = 404, !.error = "Not Found"]
          ELSE IF ~IsFinite(resourceId)
          THEN [res EXCEPT !.status = 400, !.error = "resourceId must be a number"]
          ELSE IF outcome # "ok"
          THEN [res EXCEPT !.status = 500, !.error = "Internal Server Error"]
          ELSE LET reviewsOut == {ApiReview(doc) : doc \in Where(reviews, resourceId)}
               IN [res EXCEPT !.status = 200, !.resourceId = resourceId,
                              !.reviews = reviewsOut, !.count = Cardinality(reviewsOut)]
  /\ UNCHANGED <<reviews, clock, calls>>

(***************************************************************************)
(* getStats (callable).                                                    *)
(***************************************************************************)
\* users.size: the distinct truthy userId values
UniqueUsers(docs) == Cardinality({doc.userId : doc \in {x \in docs : x.userId # ""}})

\* resources kept as a list: one entry per document
UniqueResourcesPerDocument(docs) ==
  Cardinality({x \in docs : TypeOf(x.resourceId) # "undefined"})

\* resources.size: the distinct resourceId values that are not undefined
UniqueResources(docs) ==
  Cardinality({doc.resourceId : doc \in {x \in docs : TypeOf(x.resourceId) # "undefined"}})

\* a getStats that deletes the documents it has read
GetStatsConsuming(auth, resourceId, outcome) ==
  /\ response' = [NoResponse EXCEPT !.op = "getStats", !.auth = auth,
                                    !.dataResourceId = resourceId,
                                    !.scope = "resource", !.resourceId = resourceId,
                                    !.average = Average(Where(reviews, resourceId)),
                                    !.count = CountRatings(Where(reviews, resourceId))]
  /\ reviews' = reviews \ Where(reviews, resourceId)
  /\ UNCHANGED <<clock, calls>>

\* lines 163-213 (outcome is "ok" or the store's error for the query)
GetStats(auth, resourceId, outcome) ==
  /\ LET res == [NoResponse EXCEPT !.op = "getStats", !.auth = auth,
                                   !.dataResourceId = resourceId]
     IN response' =
          IF Unauthenticated(auth)
          THEN [res EXCEPT !.error = "UNAUTHENTICATED"]
          ELSE IF outcome # "ok"
          THEN [res EXCEPT !.error = outcome]
          ELSE IF TypeOf(resourceId) = "number"
          THEN LET snap == Where(reviews, resourceId)
               IN [res EXCEPT !.scope = "resource", !.resourceId = resourceId,
                              !.average = Average(snap), !.count = CountRatings(snap),
                              !.uniqueUsers = UniqueUsers(snap)]
          ELSE [res EXCEPT !.scope = "global", !.count = CountRatings(reviews),
                           !.average = Average(reviews),
                           !.uniqueUsers = UniqueUsers(reviews),
                           !.uniqueResources = UniqueResources(reviews)]
  /\ UNCHANGED <<reviews, clock, calls>>

(***************************************************************************)
(* The Home view (src/views/Home.vue) in one browser: the rating form,     *)
(* submitRating and the cache of ratings kept in localStorage.             *)
(* A property of an object is a record {t, v}: t the typeof tag, v the     *)
(* text of a string or the value of a number ("" when undefined).          *)
(***************************************************************************)
Missing == [t |-> "undefined", v |-> ""]

Text(v) == [t |-> "string", v |-> v]

Stars(n) == [t |-> "number", v |-> ToString(n)]

\* the Firebase accounts and the local accounts that sign in at this browser,
\* the resources of the rating form and the stars that can be clicked
FirebaseUids == {"fa", "fb"}

LocalIds == {"l1"}

HomeResources == {1, 2}

HomeStars == {1, 5}

\* no saveReview call awaited
NoSubmit == [resourceId |-> 0, rating |-> 0, token |-> ""]

\* firebaseUser: uid of auth.currentUser ("" for null); localUser: id of the
\* local session ("" for none); selected: selectedResourceForRating (0 for
\* null); alert: the last alert shown; makers: for each cache entry, who was
\* signed in when it was written (kept for the properties, not stored)
HomeInit ==
  [firebaseUser |-> "", localUser |-> "", selected |-> 0, currentRating |-> 0,
   pending |-> NoSubmit, alert |-> "",
   cache |-> [r \in HomeResources |-> <<>>],
   makers |-> [r \in HomeResources |-> <<>>]]

\* unifiedAuth.isLoggedIn()
IsLoggedIn(h) == h.firebaseUser # "" \/ h.localUser # ""

\* unifiedAuth.getCurrentUser(): the Firebase user object when there is one,
\* else the local user. A Firebase user object carries uid, email and
\* displayName (App.vue maps them to id and username itself); the local user
\* carries id and username
CurrentUser(h) ==
  IF h.firebaseUser # ""
  THEN [uid |-> Text(h.firebaseUser), id |-> Missing, username |-> Missing]
  ELSE [uid |-> Missing, id |-> Text(h.localUser), username |-> Text(h.localUser)]

\* who is signed in, by account
SignedIn(h) == IF h.firebaseUser # "" THEN h.firebaseUser ELSE h.localUser

\* JSON.parse(JSON.stringify(entry)): a property whose value is undefined is
\* left out of the text
Stringify(entry) == [k \in {x \in DOMAIN entry : entry[x].t # "undefined"} |-> entry[k]]

\* reading a property of a parsed entry: undefined when it is not there
Get(entry, k) == IF k \in DOMAIN entry THEN entry[k] ELSE Missing

\* resourceRatings.findIndex(r => r.userId === currentUser.id), 0 for -1
FindIndex(list, id) ==
  IF \E i \in 1..Len(list) : Get(list[i], "userId") = id
  THEN CHOOSE i \in 1..Len(list) :
         /\ Get(list[i], "userId") = id
         /\ \A j \in 1..(i - 1) : Get(list[j], "userId") # id
  ELSE 0

\* rateResource(resourceId, rating) at lines 392-431: the list stored under
\* ratings_<resourceId> with the current user's entry replaced or appended
RateResource(h, resourceId, rating) ==
  IF ~IsLoggedIn(h) THEN h
  ELSE LET currentUser == CurrentUser(h)
           resourceRatings == h.cache[resourceId]
           existingRatingIndex == FindIndex(resourceRatings, currentUser.id)
           newRating == Stringify([userId |-> currentUser.id,
                                   username |-> currentUser.username,
                                   rating |-> Stars(rating)])
       IN IF existingRatingIndex >= 1
          THEN [h EXCEPT !.cache[resourceId][existingRatingIndex] = newRating,
                         !.makers[resourceId][existingRatingIndex] = SignedIn(h)]
          ELSE [h EXCEPT !.cache[resourceId] = Append(@, newRating),
                         !.makers[resourceId] = Append(@, SignedIn(h))]

\* the select of the rating form (v-model.number)
SelectResource(resourceId) ==
  /\ home' = [home EXCEPT !.selected = resourceId]
  /\ UNCHANGED <<reviews, clock, calls, response, table>>

\* setCurrentRating(rating)
SetCurrentRating(rating) ==
  /\ home' = [home EXCEPT !.currentRating = rating]
  /\ UNCHANGED <<reviews, clock, calls, response, table>>

\* submitRating up to its await (lines 501-509): the call carries the token
\* of the Firebase user signed in when it is made
SubmitRating ==
  /\ home.pending = NoSubmit
  /\ home.selected # 0 /\ home.currentRating # 0
  /\ home' = [home EXCEPT !.pending = [resourceId |-> home.selected,
                                       rating |-> home.currentRating,
                                       token |-> home.firebaseUser]]
  /\ UNCHANGED <<reviews, clock, calls, response, table>>

\* submitRating after its await (lines 509-526): saveReview resolves, or
\* rejects: without a token always (the identity check of saveReview), else
\* when the store fails
SubmitRatingSettles(outcome) ==
  /\ home.pending # NoSubmit
  /\ IF home.pending.token # "" /\ outcome = "ok"
     THEN home' = [RateResource(home, home.pending.resourceId, home.pending.rating)
                     EXCEPT !.pending = NoSubmit, !.currentRating = 0, !.alert = "saved"]
     ELSE home' = [home EXCEPT !.pending = NoSubmit, !.alert = "error"]
  /\ UNCHANGED <<reviews, clock, calls, response, table>>

\* a Firebase account signs in and out
FirebaseSignIn(uid) ==
  /\ home.firebaseUser = ""
  /\ home' = [home EXCEPT !.firebaseUser = uid]
  /\ UNCHANGED <<reviews, clock, calls, response, table>>

FirebaseSignOut ==
  /\ home.firebaseUser # ""
  /\ home' = [home EXCEPT !.firebaseUser = ""]
  /\ UNCHANGED <<reviews, clock, calls, response, table>>

\* a local account logs in and out
LocalLogin(id) ==
  /\ home.localUser = ""
  /\ home' = [home EXCEPT !.localUser = id]
  /\ UNCHANGED <<reviews, clock, calls, response, table>>

LocalLogout ==
  /\ home.localUser # ""
  /\ home' = [home EXCEPT !.localUser = ""]
  /\ UNCHANGED <<reviews, clock, calls, response, table>>

(***************************************************************************)
(* A DataTable component (src/components/DataTable.vue) over a fixed list  *)
(* of rows with one column. Cell texts are sequences of lower-case         *)
(* letters, so trim() and toLowerCase() leave them as they are.            *)
(***************************************************************************)
\* props.pageSize
PageSize == 2

\* props.columns (their keys) and props.rows
Columns == {"name"}

Rows ==
  << [name |-> <<"a", "b">>], [name |-> <<"c">>], [name |-> <<"a", "c">>],
     [name |-> <<"b", "c">>], [name |-> <<"a">>] >>

\* the texts typed into the search inputs
Queries == {<<>>, <<"a">>, <<"b">>, <<"a", "b">>, <<"z">>}

\* lines 78-81: sort.key is "" for null
TableInit ==
  [globalQuery |-> <<>>, columnQueries |-> [col \in Columns |-> <<>>],
   sort |-> [key |-> "", dir |-> "asc"], page |-> 1]

\* renderCell(row, col)
RenderCell(row, col) == row[col]

\* value.includes(query)
Includes(value, query) ==
  \E i \in 1..(Len(value) - Len(query) + 1) : SubSeq(value, i, i + Len(query) - 1) = query

\* filteredRows (lines 105-132)
FilteredRows(t) ==
  LET global(row) ==
        t.globalQuery = <<>> \/ \E col \in Columns : Includes(RenderCell(row, col), t.globalQuery)
      column(row) ==
        \A col \in Columns :
          t.columnQueries[col] = <<>> \/ Includes(RenderCell(row, col), t.columnQueries[col])
      keep(row) == global(row) /\ column(row)
  IN SelectSeq(Rows, keep)

\* the place of a letter in the alphabet
Rank(ch) == CASE ch = "a" -> 1 [] ch = "b" -> 2 [] ch = "c" -> 3 [] OTHER -> 4

\* aVal.localeCompare(bVal) < 0 or = 0 for texts of letters
RECURSIVE NotAfter(_, _)
NotAfter(a, b) ==
  IF a = <<>> THEN TRUE
  ELSE IF b = <<>> THEN FALSE
  ELSE IF Rank(Head(a)) # Rank(Head(b)) THEN Rank(Head(a)) < Rank(Head(b))
  ELSE NotAfter(Tail(a), Tail(b))

\* a row put into a sorted list, behind the rows it does not precede (the
\* sort is stable)
RECURSIVE Insert(_, _, _, _)
Insert(row, list, key, dir) ==
  IF list = <<>> THEN <<row>>
  ELSE LET before == IF dir = "asc"
                     THEN ~NotAfter(RenderCell(Head(list), key), RenderCell(row, key))
                     ELSE ~NotAfter(RenderCell(row, key), RenderCell(Head(list), key))
       IN IF before THEN <<row>> \o list
          ELSE <<Head(list)>> \o Insert(row, Tail(list), key, dir)

RECURSIVE Sort(_, _, _)
Sort(list, key, dir) ==
  IF list = <<>> THEN <<>>
  ELSE Insert(list[Len(list)], Sort(SubSeq(list, 1, Len(list) - 1), key, dir), key, dir)

\* sortedRows (lines 139-157): the cell texts are not numbers, so they are
\* compared as strings
SortedRows(t) ==
  IF t.sort.key = "" THEN FilteredRows(t)
  ELSE Sort(FilteredRows(t), t.sort.key, t.sort.dir)

\* totalPages (line 164): Math.ceil(length / pageSize)
TotalPages(t) == (Len(SortedRows(t)) + PageSize - 1) \div PageSize

\* list.slice(start, end)
Slice(list, start, end) ==
  LET from == IF start < 0 THEN (IF Len(list) + start < 0 THEN 0 ELSE Len(list) + start)
              ELSE (IF start > Len(list) THEN Len(list) ELSE start)
      to == IF end < 0 THEN (IF Len(list) + end < 0 THEN 0 ELSE Len(list) + end)
            ELSE (IF end > Len(list) THEN Len(list) ELSE end)
  IN SubSeq(list, from + 1, to)

\* pagedRows (lines 171-174)
PagedRows(t) ==
  LET start == (t.page - 1) * PageSize
  IN Slice(SortedRows(t), start, start + PageSize)

\* the Previous button (lines 49-54), disabled on page 1
PreviousPage ==
  /\ table.page # 1
  /\ table' = [table EXCEPT !.page = IF @ - 1 > 1 THEN @ - 1 ELSE 1]
  /\ UNCHANGED <<reviews, clock, calls, response, home>>

\* the Next button (lines 56-61), disabled when page === totalPages
NextPage ==
  /\ table.page # TotalPages(table)
  /\ table' = [table EXCEPT !.page = IF TotalPages(table) < @ + 1
                                     THEN TotalPages(table) ELSE @ + 1]
  /\ UNCHANGED <<reviews, clock, calls, response, home>>

\* toggleSort(key) (lines 182-189)
ToggleSort(key) ==
  /\ table' = IF table.sort.key # key
              THEN [table EXCEPT !.sort = [key |-> key, dir |-> "asc"]]
              ELSE [table EXCEPT !.sort.dir = IF @ = "asc" THEN "desc" ELSE "asc"]
  /\ UNCHANGED <<reviews, clock, calls, response, home>>

\* typing into the global search input (v-model="globalQuery")
SetGlobalQuery(query) ==
  /\ table' = [table EXCEPT !.globalQuery = query]
  /\ UNCHANGED <<reviews, clock, calls, response, home>>

\* typing into the search input of a column (v-model="columnQueries[col.key]")
SetColumnQuery(col, query) ==
  /\ table' = [table EXCEPT !.columnQueries[col] = query]
  /\ UNCHANGED <<reviews, clock, calls, response, home>>

(***************************************************************************)
(* The inputs the requests are drawn from, and the specifications.         *)
(* Spec runs NumCalls saveReview calls that may overlap, over a few        *)
(* inputs; SpecInputs runs NumInputCalls of them over every kind of input. *)
(***************************************************************************)
Uids == {"u1", "u2"}

StorageErrors == {"UNAVAILABLE"}

Inputs ==
  [auths |-> {NoAuth} \cup {Auth(u) : u \in Uids},
   resourceIds |-> {Num(42), Num(7)},
   ratings |-> {Num(0), Num(1), Num(5)},
   outcomes |-> {"ok"} \cup StorageErrors,
   methods |-> {"GET"},
   paths |-> {"/reviews"},
   queries |-> {Undefined, Str(<<"4", "2">>)},
   statIds |-> {Undefined, Num(42)}]

WideInputs ==
  [auths |-> {NoAuth, Auth(""), Auth("u1")},
   resourceIds |-> {Undefined, Str(<<"a", "b", "c">>), NaN, Infinity, Num(0), Num(42)},
   ratings |-> {Undefined, Str(<<"a", "b", "c">>), NaN, Num(0), Num(6), Num(1), Num(5),
                Frac(5, 2)},
   outcomes |-> {"ok"} \cup StorageErrors,
   methods |-> {"GET", "OPTIONS", "POST"},
   paths |-> {"/reviews", "/"},
   queries |-> {Undefined, Str(<<>>), Str(<<"a", "b", "c">>), Str(<<"4", "2">>),
                Str(<<"I", "n", "f", "i", "n", "i", "t", "y">>)},
   statIds |-> {Undefined, Str(<<"4", "2">>), NaN, Num(42)}]

InitOver(slots) ==
  /\ reviews = {}
  /\ clock = 0
  /\ calls = [c \in slots |-> Idle]
  /\ response = NoResponse
  /\ home = HomeInit
  /\ table = TableInit

NextOver(in) ==
  \/ /\ Ready
     /\ \E c \in DOMAIN calls, auth \in in.auths, resourceId \in in.resourceIds,
           rating \in in.ratings, outcome \in in.outcomes :
          SaveReviewCall(c, auth, resourceId, rating, outcome)
     /\ UNCHANGED <<home, table>>
  \/ /\ Ready
     /\ \E c \in DOMAIN calls, outcome \in in.outcomes : SaveReviewAggregate(c, outcome)
     /\ UNCHANGED <<home, table>>
  \/ /\ Ready
     /\ \E method \in in.methods, path \in in.paths, query \in in.queries,
           outcome \in in.outcomes :
          Api(method, path, query, outcome)
     /\ UNCHANGED <<home, table>>
  \/ /\ Ready
     /\ \E auth \in in.auths, resourceId \in in.statIds, outcome \in in.outcomes :
          GetStats(auth, resourceId, outcome)
     /\ UNCHANGED <<home, table>>
  \/ /\ Deliver
     /\ UNCHANGED <<home, table>>

Init == InitOver(1..NumCalls)

Next == NextOver(Inputs)

Spec == Init /\ [][Next]_vars

InitInputs == InitOver(1..NumInputCalls)

NextInputs == NextOver(WideInputs)

SpecInputs == InitInputs /\ [][NextInputs]_vars

\* saveReview invocations in one behaviour under SpecSequence
NumSequenceCalls == 3

\* SpecSequence: one client after another, each awaiting the aggregate of its
\* saveReview call before the next call is made, with the store answering
\* every request; getStats and api read in between
SequenceInputs ==
  [auths |-> {Auth(u) : u \in Uids},
   resourceIds |-> {Num(42), Num(7)},
   ratings |-> {Num(1), Num(3), Num(5)},
   outcomes |-> {"ok"},
   methods |-> {"GET"},
   paths |-> {"/reviews"},
   queries |-> {Str(<<"4", "2">>)},
   statAuths |-> {NoAuth, Auth("u1")},
   statIds |-> {Undefined, Num(42)}]

InitSequence == InitOver(1..NumSequenceCalls)

NextSequence ==
  \/ /\ Ready
     /\ \A b \in DOMAIN calls : calls[b].pc # "get"
     /\ \E c \in DOMAIN calls, auth \in SequenceInputs.auths,
           resourceId \in SequenceInputs.resourceIds, rating \in SequenceInputs.ratings,
           outcome \in SequenceInputs.outcomes :
          SaveReviewCall(c, auth, resourceId, rating, outcome)
     /\ UNCHANGED <<home, table>>
  \/ /\ Ready
     /\ \E c \in DOMAIN calls, outcome \in SequenceInputs.outcomes :
          SaveReviewAggregate(c, outcome)
     /\ UNCHANGED <<home, table>>
  \/ /\ Ready
     /\ \E method \in SequenceInputs.methods, path \in SequenceInputs.paths,
           query \in SequenceInputs.queries, outcome \in SequenceInputs.outcomes :
          Api(method, path, query, outcome)
     /\ UNCHANGED <<home, table>>
  \/ /\ Ready
     /\ \E auth \in SequenceInputs.statAuths, resourceId \in SequenceInputs.statIds,
           outcome \in SequenceInputs.outcomes :
          GetStats(auth, resourceId, outcome)
     /\ UNCHANGED <<home, table>>
  \/ /\ Deliver
     /\ UNCHANGED <<home, table>>

SpecSequence == InitSequence /\ [][NextSequence]_vars

\* saveReview invocations in one behaviour under SpecIds
NumIdCalls == 2

\* SpecIds: callers whose uids hold digits and the separator, for resources
\* whose ids are prefixes of one another
IdInputs ==
  [auths |-> {Auth("u"), Auth("2_u"), Auth("_u")},
   resourceIds |-> {Num(4), Num(42)},
   ratings |-> {Num(1), Num(5)},
   outcomes |-> {"ok"},
   methods |-> {"GET"},
   paths |-> {"/reviews"},
   queries |-> {Str(<<"4">>), Str(<<"4", "2">>)},
   statIds |-> {Num(4), Num(42)}]

InitIds == InitOver(1..NumIdCalls)

NextIds == NextOver(IdInputs)

SpecIds == InitIds /\ [][NextIds]_vars

\* SpecHome: the Home view alone, with the outcome of each saveReview call
\* drawn from the outcomes the function has
InitHome ==
  /\ reviews = {}
  /\ clock = 0
  /\ calls = <<>>
  /\ response = NoResponse
  /\ home = HomeInit
  /\ table = TableInit

NextHome ==
  \/ \E resourceId \in HomeResources : SelectResource(resourceId)
  \/ \E rating \in HomeStars : SetCurrentRating(rating)
  \/ SubmitRating
  \/ \E outcome \in {"ok"} \cup StorageErrors : SubmitRatingSettles(outcome)
  \/ \E uid \in FirebaseUids : FirebaseSignIn(uid)
  \/ FirebaseSignOut
  \/ \E id \in LocalIds : LocalLogin(id)
  \/ LocalLogout

SpecHome == InitHome /\ [][NextHome]_vars

\* SpecTable: a DataTable component alone
InitTable == InitHome

NextTable ==
  \/ PreviousPage
  \/ NextPage
  \/ \E key \in Columns : ToggleSort(key)
  \/ \E query \in Queries : SetGlobalQuery(query)
  \/ \E col \in Columns, query \in Queries : SetColumnQuery(col, query)

SpecTable == InitTable /\ [][NextTable]_vars

(***************************************************************************)
(* Properties.                                                             *)
(***************************************************************************)
\* the calls whose upsert has committed
Committed == {c \in DOMAIN calls : calls[c].pc # "idle"}

\* the stored Ratings of a (resourceId, raterId) pair
RatingsOf(resourceId, userId) ==
  {doc \in reviews : doc.resourceId = resourceId /\ doc.userId = userId}

\* the committed calls of a (resourceId, raterId) pair
CallsOf(resourceId, userId) ==
  {c \in Committed : calls[c].resourceId = resourceId /\ calls[c].auth.uid = userId}

\* slot c commits its upsert in this step
Commits(c) == calls[c].pc = "idle" /\ calls'[c].pc = "get"

\* slot c gets its aggregate in this step
Returns(c) == calls[c].pc = "get" /\ calls'[c].pc = "returned"

\* C1: in every reachable state the store holds at most one Rating for each
\* (resourceId, raterId) pair
C1_OneRatingPerPair ==
  \A d1 \in reviews, d2 \in reviews :
    (d1.resourceId = d2.resourceId /\ d1.userId = d2.userId) => d1 = d2

\* a pair rated twice, by two calls, holds one Rating
C1_Witness ==
  \E b \in Committed, c \in Committed :
    /\ b # c
    /\ calls[b].resourceId = calls[c].resourceId
    /\ calls[b].auth.uid = calls[c].auth.uid
    /\ Cardinality(RatingsOf(calls[c].resourceId, calls[c].auth.uid)) = 1

\* C2: when a call commits its upsert, the store holds exactly one Rating for
\* its (resourceId, raterId) pair and that Rating has the call's value, whatever
\* value an earlier call of the same rater left there
C2_SecondValueRemains ==
  [][\A c \in DOMAIN calls :
       Commits(c) =>
         /\ Cardinality({doc \in reviews' : /\ doc.resourceId = calls'[c].resourceId
                                            /\ doc.userId = calls'[c].auth.uid}) = 1
         /\ \A doc \in reviews' :
              (doc.resourceId = calls'[c].resourceId /\ doc.userId = calls'[c].auth.uid)
                => doc.rating = calls'[c].rating]_vars

\* the second of two calls of a rater, with another value, has left its value
C2_Witness ==
  \E b \in Committed, c \in Committed :
    /\ calls[b].resourceId = calls[c].resourceId
    /\ calls[b].auth.uid = calls[c].auth.uid
    /\ calls[b].at < calls[c].at
    /\ calls[b].pc = "returned"
    /\ calls[b].rating # calls[c].rating
    /\ \E doc \in RatingsOf(calls[c].resourceId, calls[c].auth.uid) :
         doc.rating = calls[c].rating

\* the commit times of the calls of a pair
TimesOf(resourceId, userId) == {calls[c].at : c \in CallsOf(resourceId, userId)}

\* the least and the greatest of a non-empty set of times
Earliest(times) == CHOOSE t \in times : \A u \in times : t <= u

Latest(times) == CHOOSE t \in times : \A u \in times : u <= t

\* C3: every Rating's createdAt is the time of the first call for its pair and
\* its updatedAt the time of the most recent one
C3_CreatedAtPreserved ==
  \A doc \in reviews :
    /\ doc.createdAt = Earliest(TimesOf(doc.resourceId, doc.userId))
    /\ doc.updatedAt = Latest(TimesOf(doc.resourceId, doc.userId))

\* C4: a call whose query is answered with no commit since its own upsert
\* returns the number of Ratings stored for its resource, its own among them
\* with the value it submitted, and their mean
C4_ReadAfterWrite ==
  [][\A c \in DOMAIN calls :
       (Returns(c) /\ clock = calls[c].at) =>
         LET stored == {doc \in reviews : doc.resourceId = calls[c].resourceId}
         IN /\ \E doc \in stored : /\ doc.userId = calls[c].auth.uid
                                   /\ doc.rating = calls[c].rating
            /\ calls'[c].count = Cardinality(stored)
            /\ IsFinite(calls'[c].average)
            /\ calls'[c].average.n * calls'[c].count
                 = calls'[c].average.d * SumRatings(stored).n]_vars

\* a call has returned the aggregate of two Ratings right after its own upsert
C4_Witness ==
  \E c \in Committed :
    /\ calls[c].pc = "returned"
    /\ clock = calls[c].at
    /\ calls[c].count = 2
    /\ calls[c].average = Num(3)

\* a value that is missing, not a number, NaN, below 1 or above 5
BadValue(x) ==
  \/ x.t # "number"
  \/ x.k = "NaN"
  \/ x.k = "Infinity"
  \/ (x.k = "finite" /\ (x.n < x.d \/ x.n > 5 * x.d))

\* a caller with no verified identity
NoIdentity(auth) == ~auth.present \/ auth.uid = ""

\* the errors of kind InvalidArgument
InvalidArgumentErrors ==
  {"INVALID_ARGUMENT: resourceId must be a number", "INVALID_ARGUMENT: rating must be 1..5"}

\* a saveReview call is answered with an error in this step
Throws == response = NoResponse /\ response'.op = "saveReview"

\* C5: a saveReview call of an authenticated caller with a value that is
\* missing, not a number, NaN, below 1 or above 5 is answered InvalidArgument
\* and leaves the store as it was; no such call commits an upsert
C5_BadValueRejected ==
  [][/\ \A c \in DOMAIN calls : Commits(c) => ~BadValue(calls'[c].rating)
     /\ (Throws /\ ~NoIdentity(response'.auth) /\ BadValue(response'.dataRating)) =>
          /\ response'.error \in InvalidArgumentErrors
          /\ reviews' = reviews]_vars

\* a NaN value was answered InvalidArgument while the store held a Rating
C5_Witness ==
  /\ response.op = "saveReview"
  /\ response.auth = Auth("u1")
  /\ response.dataResourceId = Num(42)
  /\ response.dataRating = NaN
  /\ response.error = "INVALID_ARGUMENT: rating must be 1..5"
  /\ reviews # {}

\* C6: saveReview rejects a resourceId exactly when it is not a finite number
C6_FiniteResourceIdAccepted ==
  /\ (response.op = "saveReview"
        /\ response.error = "INVALID_ARGUMENT: resourceId must be a number")
       => ~IsFinite(response.dataResourceId)
  /\ \A c \in Committed : IsFinite(calls[c].resourceId)

\* C7: a saveReview call without a verified identity is answered Unauthenticated,
\* whatever its arguments, and leaves the store as it was; no such call commits
C7_UnauthenticatedFirst ==
  [][/\ \A c \in DOMAIN calls : Commits(c) => ~NoIdentity(calls'[c].auth)
     /\ (Throws /\ NoIdentity(response'.auth)) =>
          /\ response'.error = "UNAUTHENTICATED"
          /\ reviews' = reviews]_vars

\* a call with no identity and invalid arguments was answered Unauthenticated
C7_Witness ==
  /\ response.op = "saveReview"
  /\ response.auth = NoAuth
  /\ response.dataResourceId = Str(<<"a", "b", "c">>)
  /\ response.dataRating = NaN
  /\ response.error = "UNAUTHENTICATED"
  /\ reviews # {}

\* the committed calls for a resource
CallsFor(resourceId) == {c \in Committed : calls[c].resourceId = resourceId}

\* a call that has ended, with its aggregate or with the store's error
Completed(c) == calls[c].pc \in {"returned", "failed"}

\* C8: once the calls for a resource have completed, if they are by different
\* raters the store holds for that resource one Rating per rater, with the value
\* that rater submitted
C8_NoLostSubmission ==
  \A c0 \in Committed :
    LET resourceId == calls[c0].resourceId
        cs == CallsFor(resourceId)
    IN ((\A c \in cs : Completed(c))
          /\ (\A b \in cs, c \in cs : b # c => calls[b].auth.uid # calls[c].auth.uid))
         => /\ Cardinality({doc \in reviews : doc.resourceId = resourceId}) = Cardinality(cs)
            /\ \A c \in cs :
                 \E doc \in reviews : /\ doc.resourceId = resourceId
                                      /\ doc.userId = calls[c].auth.uid
                                      /\ doc.rating = calls[c].rating

\* two raters' calls for a resource overlapped (the first read both Ratings)
\* and both values are stored
C8_Witness ==
  \E b \in Committed, c \in Committed :
    /\ calls[b].resourceId = calls[c].resourceId
    /\ calls[b].auth.uid # calls[c].auth.uid
    /\ calls[b].rating # calls[c].rating
    /\ calls[b].at < calls[c].at
    /\ calls[b].pc = "returned" /\ calls[b].count = 2
    /\ calls[c].pc = "returned"
    /\ Cardinality({doc \in reviews : doc.resourceId = calls[c].resourceId}) = 2

\* C9: once the calls of a rater for a resource have completed, the store holds
\* exactly one Rating for the pair, with the value of the call that committed
\* last; a call fails only with an error of the store itself
C9_LastWriteWins ==
  /\ \A c \in Committed : calls[c].pc = "failed" => calls[c].error \in StorageErrors
  /\ \A c0 \in Committed :
       LET resourceId == calls[c0].resourceId
           userId == calls[c0].auth.uid
           cs == CallsOf(resourceId, userId)
       IN (\A c \in cs : Completed(c))
            => /\ Cardinality(RatingsOf(resourceId, userId)) = 1
               /\ \A doc \in RatingsOf(resourceId, userId), c \in cs :
                    calls[c].at = Latest(TimesOf(resourceId, userId))
                      => doc.rating = calls[c].rating

\* two calls of one rater overlapped (the first, which submitted 1, read the
\* second's 5) and the second's value is stored
C9_Witness ==
  \E b \in Committed, c \in Committed :
    /\ calls[b].resourceId = calls[c].resourceId
    /\ calls[b].auth.uid = calls[c].auth.uid
    /\ calls[b].at < calls[c].at
    /\ calls[b].rating = Num(1) /\ calls[c].rating = Num(5)
    /\ calls[b].pc = "returned" /\ calls[b].average = Num(5)
    /\ calls[c].pc = "returned"
    /\ \A doc \in RatingsOf(calls[c].resourceId, calls[c].auth.uid) : doc.rating = Num(5)

\* C10: the aggregate a call returns is that of the Ratings stored for its
\* resource when its query is answered: one per rater who has committed a call
\* for the resource by then, the caller among them
C10_AggregateAtRead ==
  [][\A c \in DOMAIN calls :
       Returns(c) =>
         LET stored == {doc \in reviews : doc.resourceId = calls[c].resourceId}
             raters == {calls[b].auth.uid : b \in CallsFor(calls[c].resourceId)}
         IN /\ \E doc \in stored : doc.userId = calls[c].auth.uid
            /\ calls[c].auth.uid \in raters
            /\ calls'[c].count = Cardinality(raters)
            /\ calls'[c].count = Cardinality(stored)
            /\ calls'[c].average.n * calls'[c].count
                 = calls'[c].average.d * SumRatings(stored).n]_vars

\* a call returned a count that includes a Rating another rater committed
\* after the call's own upsert
C10_Witness ==
  \E b \in Committed, c \in Committed :
    /\ calls[b].resourceId = calls[c].resourceId
    /\ calls[b].auth.uid # calls[c].auth.uid
    /\ calls[c].at < calls[b].at
    /\ calls[c].pc = "returned"
    /\ calls[c].count = 2

\* the documents of a collection outside a (resourceId, raterId) pair
OthersOf(col, resourceId, userId) ==
  {doc \in col : ~(doc.resourceId = resourceId /\ doc.userId = userId)}

\* C11: a call that commits its upsert leaves every Rating outside its own
\* (resourceId, raterId) pair as it was, adds none and removes none there, so
\* the Ratings, count and mean of every other resource are unchanged
C11_OnlyOwnRecordChanges ==
  [][\A c \in DOMAIN calls :
       Commits(c) =>
         /\ OthersOf(reviews', calls'[c].resourceId, calls'[c].auth.uid)
              = OthersOf(reviews, calls'[c].resourceId, calls'[c].auth.uid)
         /\ \A r \in {doc.resourceId : doc \in reviews} :
              r # calls'[c].resourceId =>
                /\ Where(reviews', r) = Where(reviews, r)
                /\ Average(Where(reviews', r)) = Average(Where(reviews, r))
                /\ CountRatings(Where(reviews', r)) = CountRatings(Where(reviews, r))]_vars

\* a call has committed after Ratings of another rater and of another
\* resource were stored, and those Ratings still carry their own commit times
C11_Witness ==
  \E a \in Committed, b \in Committed, c \in Committed :
    /\ calls[a].at < calls[c].at /\ calls[b].at < calls[c].at
    /\ calls[a].resourceId = calls[c].resourceId /\ calls[a].auth.uid # calls[c].auth.uid
    /\ calls[b].resourceId # calls[c].resourceId
    /\ \E doc \in RatingsOf(calls[a].resourceId, calls[a].auth.uid) :
         doc.updatedAt = calls[a].at /\ doc.rating = calls[a].rating
    /\ \E doc \in RatingsOf(calls[b].resourceId, calls[b].auth.uid) :
         doc.updatedAt = calls[b].at /\ doc.rating = calls[b].rating

\* getStats is answered in this step
StatsAnswered == response = NoResponse /\ response'.op = "getStats"

\* the sum of the values submitted by a set of calls
RECURSIVE SumSubmitted(_)
SumSubmitted(cs) ==
  IF cs = {} THEN Num(0)
  ELSE LET c == CHOOSE x \in cs : TRUE
       IN Plus(calls[c].rating, SumSubmitted(cs \ {c}))

\* C12: when getStats answers for a resource whose committed calls are by N
\* distinct raters, one call each, it returns count = N and an average equal
\* to the sum of the submitted values divided by N
C12_StatsOfDistinctRaters ==
  [][(StatsAnswered /\ response'.scope = "resource") =>
       LET cs == CallsFor(response'.resourceId)
       IN (\A b \in cs, c \in cs : b # c => calls[b].auth.uid # calls[c].auth.uid)
            => /\ response'.count = Cardinality(cs)
               /\ IsFinite(response'.average)
               /\ response'.average.n * Cardinality(cs) * SumSubmitted(cs).d
                    = response'.average.d * SumSubmitted(cs).n]_vars

\* getStats has answered count 2 and average 3 for a resource that two raters
\* rated 1 and 5
C12_Witness ==
  /\ response.op = "getStats" /\ response.scope = "resource"
  /\ response.count = 2 /\ response.average = Num(3)
  /\ \E b \in CallsFor(response.resourceId), c \in CallsFor(response.resourceId) :
       /\ calls[b].auth.uid # calls[c].auth.uid
       /\ calls[b].rating = Num(1) /\ calls[c].rating = Num(5)
  /\ Cardinality(CallsFor(response.resourceId)) = 2

\* slot c holds the call submitRating(resourceId, userId, value)
Submitted(c, resourceId, userId, value) ==
  /\ c \in Committed
  /\ calls[c].resourceId = Num(resourceId)
  /\ calls[c].auth.uid = userId
  /\ calls[c].rating = Num(value)

\* slot c's call has returned {average, count}
Returned(c, average, count) ==
  /\ calls[c].pc = "returned"
  /\ calls[c].average = Num(average)
  /\ calls[c].count = count

\* C13: from the empty store, the calls (42, "u1", 5), (42, "u2", 3) and
\* (42, "u1", 1), made one after another, return {average 5, count 1}, then
\* {average 4, count 2}, then {average 2, count 2}
C13_Scenario ==
  /\ (Submitted(1, 42, "u1", 5) /\ calls[1].pc = "returned") => Returned(1, 5, 1)
  /\ (Submitted(1, 42, "u1", 5) /\ Submitted(2, 42, "u2", 3) /\ calls[2].pc = "returned")
       => Returned(2, 4, 2)
  /\ (Submitted(1, 42, "u1", 5) /\ Submitted(2, 42, "u2", 3) /\ Submitted(3, 42, "u1", 1)
        /\ calls[3].pc = "returned")
       => Returned(3, 2, 2)

\* the three calls of the scenario have returned
C13_Witness ==
  /\ Submitted(1, 42, "u1", 5) /\ Returned(1, 5, 1)
  /\ Submitted(2, 42, "u2", 3) /\ Returned(2, 4, 2)
  /\ Submitted(3, 42, "u1", 1) /\ Returned(3, 2, 2)

\* the sum of the values of a set of Ratings
RECURSIVE TotalValue(_)
TotalValue(docs) ==
  IF docs = {} THEN Num(0)
  ELSE LET doc == CHOOSE x \in docs : TRUE
       IN Plus(doc.rating, TotalValue(docs \ {doc}))

\* C14: getStats with resourceId omitted answers an authenticated caller with
\* scope "global", reviewsCount the number of Ratings in the store,
\* averageRating their mean (0 for the empty store), uniqueUsers the number of
\* distinct raterIds and uniqueResources the number of distinct resourceIds;
\* after the calls (42, "u1", 5), (42, "u2", 3), (42, "u1", 1) these are
\* 2, 2, 2 and 1
C14_GlobalStats ==
  [][(StatsAnswered /\ response'.dataResourceId = Undefined
        /\ ~NoIdentity(response'.auth)) =>
       /\ response'.scope = "global"
       /\ response'.count = Cardinality(reviews)
       /\ IsFinite(response'.average)
       /\ response'.average.n * Cardinality(reviews) * TotalValue(reviews).d
            = response'.average.d * TotalValue(reviews).n
       /\ reviews = {} => response'.average = Num(0)
       /\ response'.uniqueUsers = Cardinality({doc.userId : doc \in reviews})
       /\ response'.uniqueResources = Cardinality({doc.resourceId : doc \in reviews})
       /\ (Committed = {1, 2, 3} /\ Submitted(1, 42, "u1", 5) /\ Submitted(2, 42, "u2", 3)
             /\ Submitted(3, 42, "u1", 1))
            => /\ response'.count = 2
               /\ response'.average = Num(2)
               /\ response'.uniqueUsers = 2
               /\ response'.uniqueResources = 1]_vars

\* getStats has answered the global statistics of the scenario
C14_Witness ==
  /\ Committed = {1, 2, 3}
  /\ Submitted(1, 42, "u1", 5) /\ Submitted(2, 42, "u2", 3) /\ Submitted(3, 42, "u1", 1)
  /\ response.op = "getStats" /\ response.dataResourceId = Undefined
  /\ response.scope = "global"
  /\ response.count = 2 /\ response.average = Num(2)
  /\ response.uniqueUsers = 2 /\ response.uniqueResources = 1

\* C15: when getStats answers an authenticated caller for a numeric resourceId
\* that no stored Rating has, and the store answers the query, the reply is
\* scope "resource" with average 0 and count 0
C15_NoRatingsZero ==
  [][(StatsAnswered /\ ~NoIdentity(response'.auth)
        /\ TypeOf(response'.dataResourceId) = "number"
        /\ response'.error \notin StorageErrors
        /\ ~\E doc \in reviews : doc.resourceId = response'.dataResourceId) =>
       /\ response'.scope = "resource"
       /\ response'.error = ""
       /\ response'.average = Num(0)
       /\ response'.count = 0]_vars

\* getStats has answered average 0 and count 0 for a resource without Ratings
\* while the store held Ratings of another resource
C15_Witness ==
  /\ response.op = "getStats" /\ response.scope = "resource"
  /\ reviews # {}
  /\ ~\E doc \in reviews : doc.resourceId = response.resourceId
  /\ response.average = Num(0) /\ response.count = 0

\* C16: getStats called with a numeric resourceId answers a caller without
\* identity Unauthenticated, with no statistics; it answers any other caller,
\* when the store answers the query, scope "resource" with that resourceId,
\* the count and mean of the Ratings stored for it and uniqueUsers the number
\* of distinct raterIds among them
C16_ResourceStats ==
  [][(StatsAnswered /\ TypeOf(response'.dataResourceId) = "number") =>
       LET stored == {doc \in reviews : doc.resourceId = response'.dataResourceId}
       IN /\ NoIdentity(response'.auth) =>
               /\ response'.error = "UNAUTHENTICATED"
               /\ response'.scope = ""
          /\ (~NoIdentity(response'.auth) /\ response'.error \notin StorageErrors) =>
               /\ response'.error = ""
               /\ response'.scope = "resource"
               /\ response'.resourceId = response'.dataResourceId
               /\ response'.count = Cardinality(stored)
               /\ IsFinite(response'.average)
               /\ response'.average.n * Cardinality(stored) * TotalValue(stored).d
                    = response'.average.d * TotalValue(stored).n
               /\ response'.uniqueUsers = Cardinality({doc.userId : doc \in stored})]_vars

\* getStats has answered an authenticated caller for a resource two raters
\* rated, with Ratings of another resource left out
C16_Witness ==
  /\ response.op = "getStats" /\ response.auth \in {Auth(u) : u \in Uids}
  /\ response.scope = "resource" /\ response.resourceId = response.dataResourceId
  /\ response.uniqueUsers = 2 /\ response.count = 2
  /\ Cardinality(reviews) > 2

\* C17 as stated: getStats with resourceId omitted answers a caller without
\* identity with the global statistics, not with Unauthenticated
C17_GlobalWithoutIdentity ==
  (response.op = "getStats" /\ response.dataResourceId = Undefined
     /\ NoIdentity(response.auth)) =>
    /\ response.error # "UNAUTHENTICATED"
    /\ response.error = "" => response.scope = "global"

\* C17 (amended): getStats with resourceId omitted requires an identity as it
\* does with a resourceId: a caller without identity is answered
\* Unauthenticated and no statistics; any other caller, when the store answers
\* the query, the global statistics
C17_GlobalRequiresIdentity ==
  [][(StatsAnswered /\ response'.dataResourceId = Undefined) =>
       /\ NoIdentity(response'.auth) =>
            /\ response'.error = "UNAUTHENTICATED"
            /\ response'.scope = ""
            /\ response'.count = 0 /\ response'.average = Undefined
       /\ (~NoIdentity(response'.auth) /\ response'.error \notin StorageErrors) =>
            /\ response'.error = ""
            /\ response'.scope = "global"
            /\ response'.count = Cardinality(reviews)]_vars

\* a caller without identity asked for the global statistics of a store that
\* holds a Rating and was answered Unauthenticated
C17_Witness ==
  /\ response.op = "getStats" /\ response.auth = NoAuth
  /\ response.dataResourceId = Undefined
  /\ response.error = "UNAUTHENTICATED" /\ response.scope = ""
  /\ reviews # {}

\* getStats or api is answered in this step
ReadAnswered == response = NoResponse /\ response'.op \in {"getStats", "api"}

\* C18: a step that answers getStats or api, with whatever arguments and with
\* a result or an error, leaves the stored Ratings as they were
C18_ReadsLeaveStore ==
  [][ReadAnswered => reviews' = reviews]_vars

\* api has answered 200 with the one Rating the store holds
C18_Witness ==
  /\ response.op = "api" /\ response.status = 200
  /\ response.count = 1
  /\ Cardinality(reviews) = 1

\* api is answered in this step
ApiAnswered == response = NoResponse /\ response'.op = "api"

\* a record of the reply carries the document's resourceId, raterId, value
\* and timestamps
Lists(record, doc) ==
  /\ record.id = doc.id
  /\ record.resourceId = doc.resourceId
  /\ record.userId = doc.userId
  /\ record.rating = doc.rating
  /\ record.createdAt = doc.createdAt
  /\ record.updatedAt = doc.updatedAt

\* C19: a GET on the reviews route that is answered 200, which takes no
\* identity, lists exactly the Ratings stored with the resourceId of the
\* reply, each with its raterId and value, and a count equal to the number
\* of records listed
C19_ListsExactlyStored ==
  [][(ApiAnswered /\ response'.status = 200) =>
       LET stored == {doc \in reviews : doc.resourceId = response'.resourceId}
       IN /\ response'.query = Str(<<"4", "2">>) => response'.resourceId = Num(42)
          /\ \A doc \in stored : \E record \in response'.reviews : Lists(record, doc)
          /\ \A record \in response'.reviews : \E doc \in stored : Lists(record, doc)
          /\ Cardinality(response'.reviews) = Cardinality(stored)
          /\ response'.count = Cardinality(response'.reviews)]_vars

\* api has listed the two Ratings of a resource, by two raters, and left out
\* the Rating of another resource
C19_Witness ==
  /\ response.op = "api" /\ response.status = 200
  /\ response.count = 2
  /\ {record.userId : record \in response.reviews} = Uids
  /\ \A record \in response.reviews : record.resourceId = response.resourceId
  /\ \E doc \in reviews : doc.resourceId # response.resourceId

\* a query parameter that is present and is the text of a number: a
\* non-empty string of digits
NumericText(query) ==
  /\ query.t = "string"
  /\ query.s # <<>>
  /\ \A i \in 1..Len(query.s) : query.s[i] \in Digits

\* C20: a GET on the reviews route is answered 400, with no Ratings read, when
\* the resourceId parameter is missing, empty or not the text of a number, and
\* is answered 200 only when it is numeric
C20_BadResourceId400 ==
  (response.op = "api" /\ response.method = "GET" /\ response.path = "/reviews") =>
    /\ ~NumericText(response.query) =>
         /\ response.status = 400
         /\ response.reviews = {}
    /\ response.status = 200 => NumericText(response.query)

\* C21: every reply of api carries the headers that allow any origin and the
\* Content-Type and Authorization request headers; an OPTIONS request is
\* answered 204 and a request of any method other than GET and OPTIONS 405,
\* whatever the path and query, and neither is answered with Ratings or with
\* the 500 of a failed query
C21_PreflightAndMethod ==
  response.op = "api" =>
    /\ <<"Access-Control-Allow-Origin", "*">> \in response.headers
    /\ <<"Access-Control-Allow-Headers", "Content-Type, Authorization">> \in response.headers
    /\ response.method = "OPTIONS" => (response.status = 204 /\ response.reviews = {})
    /\ response.method \notin {"GET", "OPTIONS"} =>
         (response.status = 405 /\ response.reviews = {})

\* a POST to another path with a non-numeric query was answered 405, with the
\* headers, while the store held a Rating
C21_Witness ==
  /\ response.op = "api" /\ response.method = "POST"
  /\ response.path = "/" /\ response.query = Str(<<"a", "b", "c">>)
  /\ response.status = 405
  /\ <<"Access-Control-Allow-Origin", "*">> \in response.headers
  /\ reviews # {}

\* the (resourceId, raterId) keys present in a collection
Keys(col) == {<<doc.resourceId, doc.userId>> : doc \in col}

\* C23: no step removes a Rating: every (resourceId, raterId) key present
\* before a step is present after it, the number of Ratings of a resource does
\* not decrease, and a call returns a count at least as large as every count
\* returned before it for the same resource
C23_KeysOnlyGrow ==
  [][/\ Keys(reviews) \subseteq Keys(reviews')
     /\ \A r \in {doc.resourceId : doc \in reviews} :
          Cardinality({doc \in reviews' : doc.resourceId = r})
            >= Cardinality({doc \in reviews : doc.resourceId = r})
     /\ \A c \in DOMAIN calls :
          Returns(c) =>
            \A b \in CallsFor(calls[c].resourceId) :
              calls[b].pc = "returned" => calls[b].count <= calls'[c].count]_vars

\* a resource's second rater has been returned count 2 after its first rater
\* was returned count 1, and both keys are present
C23_Witness ==
  \E b \in Committed, c \in Committed :
    /\ calls[b].resourceId = calls[c].resourceId
    /\ calls[b].auth.uid # calls[c].auth.uid
    /\ calls[b].pc = "returned" /\ calls[b].count = 1
    /\ calls[c].pc = "returned" /\ calls[c].count = 2
    /\ {<<calls[b].resourceId, calls[b].auth.uid>>,
        <<calls[c].resourceId, calls[c].auth.uid>>} \subseteq Keys(reviews)

\* C24: every stored Rating has an integer value from 1 to 5, and every
\* non-zero average a call has returned lies between 1 and 5
C24_IntegerValue ==
  /\ \A doc \in reviews :
       /\ IsFinite(doc.rating)
       /\ doc.rating.d = 1
       /\ doc.rating.n \in 1..5
  /\ \A c \in Committed :
       (calls[c].pc = "returned" /\ calls[c].average # Num(0)) =>
         /\ IsFinite(calls[c].average)
         /\ calls[c].average.d <= calls[c].average.n
         /\ calls[c].average.n <= 5 * calls[c].average.d

\* C25: a call that commits the first upsert of its (resourceId, raterId)
\* pair creates a Rating whose createdAt and updatedAt are equal, and every
\* stored Rating has createdAt <= updatedAt
C25_CreatedNotAfterUpdated ==
  [][/\ \A doc \in reviews' : doc.createdAt <= doc.updatedAt
     /\ \A c \in DOMAIN calls :
          (Commits(c) /\ RatingsOf(calls'[c].resourceId, calls'[c].auth.uid) = {}) =>
            \E doc \in reviews' :
              /\ doc.resourceId = calls'[c].resourceId
              /\ doc.userId = calls'[c].auth.uid
              /\ doc.createdAt = doc.updatedAt
              /\ doc.updatedAt = calls'[c].at]_vars

\* a Rating submitted and then resubmitted is stored with createdAt no later
\* than updatedAt, the time of the resubmission
C25_Witness ==
  /\ Cardinality(reviews) = 1
  /\ Cardinality(Committed) = 2
  /\ \A doc \in reviews : doc.createdAt <= doc.updatedAt /\ doc.updatedAt = 2

\* the (resourceId, raterId) pairs of the committed calls
CommittedPairs == {<<calls[c].resourceId, calls[c].auth.uid>> : c \in Committed}

\* the composite identifier is injective on the stored Ratings and on the
\* committed calls: no two Ratings share an id, and each pair submitted has a
\* Rating of its own
C26_Injective ==
  /\ \A d1 \in reviews, d2 \in reviews : d1.id = d2.id => d1 = d2
  /\ Keys(reviews) = CommittedPairs
  /\ Cardinality(reviews) = Cardinality(CommittedPairs)

\* C26: every stored Rating has the id resourceId + "_" + raterId of its own
\* resourceId and raterId fields, and two calls with different
\* (resourceId, raterId) pairs never write the same Rating
C26_CompositeId ==
  /\ \A doc \in reviews : doc.id = NumberToString(doc.resourceId) \o "_" \o doc.userId
  /\ C26_Injective

\* the pairs (4, "2_u") and (42, "_u"), whose parts run together to the same
\* text, are stored as two Ratings
C26_Witness ==
  /\ CommittedPairs = {<<Num(4), "2_u">>, <<Num(42), "_u">>}
  /\ {doc.id : doc \in reviews} = {"4_2_u", "42__u"}

RECURSIVE SumOfCounts(_)
SumOfCounts(resourceIds) ==
  IF resourceIds = {} THEN 0
  ELSE LET r == CHOOSE x \in resourceIds : TRUE
       IN CountRatings(Where(reviews, r)) + SumOfCounts(resourceIds \ {r})

\* C28: the count getStats answers for a resource equals the uniqueUsers of
\* the same answer and the number of Ratings stored for the resource; the
\* count api answers for a resource equals the count and the uniqueUsers
\* getStats has for it in that state; and the global reviewsCount equals the
\* sum of the counts of the resources in the store
C28_CountsAgree ==
  [][/\ (StatsAnswered /\ response'.scope = "resource") =>
          /\ response'.count = response'.uniqueUsers
          /\ response'.count
               = Cardinality({doc \in reviews : doc.resourceId = response'.resourceId})
     /\ (ApiAnswered /\ response'.status = 200) =>
          /\ response'.count = CountRatings(Where(reviews, response'.resourceId))
          /\ response'.count = UniqueUsers(Where(reviews, response'.resourceId))
     /\ (StatsAnswered /\ response'.scope = "global") =>
          response'.count = SumOfCounts({doc.resourceId : doc \in reviews})]_vars

\* getStats has answered reviewsCount 3 for a store with the Ratings of two
\* raters for two resources
C28_Witness ==
  /\ response.op = "getStats" /\ response.scope = "global"
  /\ response.count = 3 /\ response.uniqueResources = 2 /\ response.uniqueUsers = 2
  /\ Cardinality(reviews) = 3

\* the awaited saveReview call of the Home view settles in this step
Settles == home.pending # NoSubmit /\ home'.pending = NoSubmit

\* C29: the rating cache of the Home view changes only in the step in which
\* the awaited saveReview call succeeds; a call that fails leaves it as it
\* was; and a step changes no entry that was written while another user was
\* signed in: such an entry keeps its place and its content
C29_CacheOwnEntryOnly ==
  [][/\ home'.cache # home.cache => (Settles /\ home'.alert = "saved")
     /\ (Settles /\ home'.alert = "error") => home'.cache = home.cache
     /\ \A r \in HomeResources :
          \A i \in 1..Len(home.cache[r]) :
            home.makers[r][i] # SignedIn(home) =>
              /\ i <= Len(home'.cache[r])
              /\ home'.cache[r][i] = home.cache[r][i]]_vars

\* C30: after any sequence of Previous and Next clicks, sort toggles and
\* changes of the search inputs, the page of a DataTable is within
\* 1..max(1, totalPages), and the rows displayed are not empty while rows
\* match the search
C30_PageInRange ==
  /\ table.page >= 1
  /\ table.page <= (IF TotalPages(table) > 1 THEN TotalPages(table) ELSE 1)
  /\ SortedRows(table) # <<>> => PagedRows(table) # <<>>

====
